---------------------------- MODULE Spec2Model ----------------------------
(***************************************************************************)
(* Model of the background script of the token-request app                 *)
(* (src/app/src/script.js): the bootstrap (initialize, createStore,        *)
(* initializeState) and the store reducer with its event handlers.         *)
(*                                                                         *)
(* JavaScript values.  A JS object is a TLA+ record whose DOMAIN is the    *)
(* set of keys the object owns, so {} is the record with the empty domain  *)
(* and {...o, k: v} is SetKey(Spread(o), k, v).  The value undefined is    *)
(* the record Undefined, and an array is wrapped as [items |-> <<...>>],   *)
(* so that a key holding undefined and a key holding an array can be       *)
(* compared.  A token's decimals is a number (Num) or a string (Str).      *)
(***************************************************************************)
EXTENDS Integers, Sequences, FiniteSets, TLC

(***************************************************************************)
(* Bounds of the model.                                                    *)
(***************************************************************************)
MaxEvents == 4          \* number of log events delivered to the store
MaxRequestId == 2       \* requestIds carried by events are 1..MaxRequestId
MaxTokens == 3          \* length of the accepted deposit token list

(***************************************************************************)
(* JavaScript values                                                       *)
(***************************************************************************)
Undefined == [type |-> "undefined"]
Null == [type |-> "null"]
Rejected == [type |-> "rejected"]       \* a promise that rejected (a throw)
EmptyObject == [k \in {} |-> TRUE]
Array(s) == [items |-> s]
Num(n) == [num |-> n]
Str(s) == [str |-> s]

\* o[k] of JavaScript: undefined when the object does not own the key
Get(o, k) == IF k \in DOMAIN o THEN o[k] ELSE Undefined
\* {...o}: spreading undefined or null yields the empty object
Spread(o) == IF o = Undefined \/ o = Null THEN EmptyObject ELSE o
\* {...o, k: v}
SetKey(o, k, v) == [x \in (DOMAIN o) \cup {k} |-> IF x = k THEN v ELSE o[x]]

(***************************************************************************)
(* Imported constants (lib/constants, lib/token-utils)                     *)
(***************************************************************************)
ETHER_TOKEN_FAKE_ADDRESS == "0x0"
PENDING == "PENDING"
APPROVED == "APPROVED"
WITHDRAWN == "WITHDRAWN"
requestStatus == {PENDING, APPROVED, WITHDRAWN}

ETHER_DATA == [decimals |-> Num(18), name |-> "Ether", symbol |-> "ETH"]

(***************************************************************************)
(* The external call service, as seen from the script.  A call either      *)
(* yields a value or raises an error.                                      *)
(***************************************************************************)
Ok(v) == [ok |-> TRUE, value |-> v]
Err == [ok |-> FALSE]

\* network.type delivered by app.network()
NetworkType == "main"

\* The ERC20 contracts of the reference deployment: the outcome of the
\* decimals / name / symbol calls of each token address.
Chain(tokenAddress) ==
  CASE tokenAddress = "0xAAA" ->
         [decimals |-> Ok(Num(6)), name |-> Ok("Aaa"), symbol |-> Ok("AAA")]
    [] tokenAddress = "0xBBB" ->
         [decimals |-> Err, name |-> Ok(""), symbol |-> Err]
    [] tokenAddress = "0xDA1" ->
         [decimals |-> Ok(Num(0)), name |-> Err, symbol |-> Ok("")]
    [] OTHER ->
         [decimals |-> Ok(Num(18)), name |-> Ok("Org"), symbol |-> Ok("ORG")]

\* The ERC20 contracts the script talks to: per token address, the outcome
\* of its decimals / name / symbol calls.  No step of the script changes it.
VARIABLE chain

\* tokenDataFallback(tokenAddress, fieldName, networkType): the entry of the
\* static table, as [value |-> v], or Null when the table has none.
tokenDataFallback(tokenAddress, fieldName, networkType) ==
  IF tokenAddress = "0xDA1" /\ networkType = "main"
  THEN CASE fieldName = "decimals" -> [value |-> Str("18")]
         [] fieldName = "name" -> [value |-> "Dai Stablecoin v1.0"]
         [] OTHER -> [value |-> "DAI"]
  ELSE Null

\* JavaScript truthiness of a name/symbol string and of a decimals value
Falsy(v) == v = ""
FalsyDecimals(v) == v = Num(0) \/ v = Str("")

(***************************************************************************)
(* Helpers (script.js 193-264)                                             *)
(***************************************************************************)
loadTokenName(tokenAddress, settings, call) ==
  LET table == tokenDataFallback(tokenAddress, "name", settings.network.type)
      fallback == IF table = Null \/ Falsy(table.value) THEN "" ELSE table.value
  IN IF call.ok
     THEN IF Falsy(call.value) THEN fallback ELSE call.value
     ELSE fallback

loadTokenSymbol(tokenAddress, settings, call) ==
  LET table == tokenDataFallback(tokenAddress, "symbol", settings.network.type)
      fallback == IF table = Null \/ Falsy(table.value) THEN "" ELSE table.value
  IN IF call.ok
     THEN IF Falsy(call.value) THEN fallback ELSE call.value
     ELSE fallback

\* Mutant: the fallback is used only when the call raises
loadTokenDecimalsOnErrorOnly(tokenAddress, settings, call) ==
  LET table == tokenDataFallback(tokenAddress, "decimals", settings.network.type)
      fallback == IF table = Null \/ FalsyDecimals(table.value)
                  THEN Str("0") ELSE table.value
  IN IF call.ok THEN call.value ELSE fallback

loadTokenDecimals(tokenAddress, settings, call) ==
  LET table == tokenDataFallback(tokenAddress, "decimals", settings.network.type)
      fallback == IF table = Null \/ FalsyDecimals(table.value)
                  THEN Str("0") ELSE table.value
  IN IF call.ok
     THEN IF FalsyDecimals(call.value) THEN fallback ELSE call.value
     ELSE fallback

\* calls: the outcomes of the three external calls of this token
getTokenData(tokenAddress, settings, calls) ==
  [decimals |-> loadTokenDecimals(tokenAddress, settings, calls.decimals),
   name |-> loadTokenName(tokenAddress, settings, calls.name),
   symbol |-> loadTokenSymbol(tokenAddress, settings, calls.symbol),
   address |-> tokenAddress]

\* Number -> decimal string -> parseInt(_, 10), for a non-negative integer
RECURSIVE ToDigits(_)
ToDigits(n) == IF n < 10 THEN <<n>> ELSE Append(ToDigits(n \div 10), n % 10)

RECURSIVE FromDigits(_)
FromDigits(ds) ==
  IF ds = << >> THEN 0
  ELSE 10 * FromDigits(SubSeq(ds, 1, Len(ds) - 1)) + ds[Len(ds)]

parseInt(n) == FromDigits(ToDigits(n))

\* Mutant: the timestamp is kept in seconds
marshallDateSeconds(date) == parseInt(date)

marshallDate(date) == parseInt(date) * 1000

\* requests.findIndex(request => request.requestId === requestId); 0 for -1
findIndex(items, requestId) ==
  IF \E i \in 1..Len(items) : items[i].requestId = requestId
  THEN CHOOSE i \in 1..Len(items) :
         /\ items[i].requestId = requestId
         /\ \A j \in 1..(i - 1) : items[j].requestId # requestId
  ELSE 0

\* Mutant: the updated record is removed and pushed back at the end
updateRequestStatusMovesToEnd(requests, requestId, nextStatus) ==
  IF requests = Undefined
  THEN Rejected
  ELSE LET items == requests.items
           requestIndex == findIndex(items, requestId)
       IN IF requestIndex # 0
          THEN Array(SubSeq(items, 1, requestIndex - 1)
                     \o SubSeq(items, requestIndex + 1, Len(items))
                     \o <<[items[requestIndex] EXCEPT !.status = nextStatus]>>)
          ELSE Undefined

\* requests.findIndex raises a TypeError when requests is undefined, which
\* rejects the promise of this async function
updateRequestStatus(requests, requestId, nextStatus) ==
  IF requests = Undefined
  THEN Rejected
  ELSE LET requestIndex == findIndex(requests.items, requestId)
       IN IF requestIndex # 0
          THEN Array([requests.items EXCEPT
                        ![requestIndex] = [@ EXCEPT !.status = nextStatus]])
          ELSE Undefined   \* logged; the function returns nothing

(***************************************************************************)
(* The log events.  Every event is {event, returnValues, blockNumber}.     *)
(***************************************************************************)
ACCOUNTS_TRIGGER == "ACCOUNTS_TRIGGER"
SYNC_STATUS_SYNCING == "SYNC_STATUS_SYNCING"
SYNC_STATUS_SYNCED == "SYNC_STATUS_SYNCED"

RequestIds == 1..MaxRequestId
Accounts == {"0xACC1"}
\* (depositToken, requestToken) pairs carried by creation events
TokenPairs == {<<ETHER_TOKEN_FAKE_ADDRESS, "0xAAA">>, <<"0xBBB", "0xDA1">>}

CreatedValues(requestId, pair) ==
  [requestId |-> requestId, requesterAddress |-> "0xREQ",
   depositToken |-> pair[1], depositAmount |-> 10,
   requestToken |-> pair[2], requestAmount |-> 20,
   requestTokenId |-> 0, reference |-> "ref"]

ReturnValues ==
  [ACCOUNTS_TRIGGER |-> [account : Accounts],
   SYNC_STATUS_SYNCING |-> {EmptyObject},
   SYNC_STATUS_SYNCED |-> {EmptyObject},
   TokenRequestCreated |->
     {CreatedValues(i, p) : i \in RequestIds, p \in TokenPairs},
   TokenRequestRefunded |-> [requestId : RequestIds],
   TokenRequestFinalised |-> [requestId : RequestIds],
   SomethingElse |-> {EmptyObject}]

EventKinds == DOMAIN ReturnValues

LogEvent(kind, returnValues, blockNumber) ==
  [event |-> kind, returnValues |-> returnValues, blockNumber |-> blockNumber]

\* Block b of the ledger carries this timestamp (seconds)
BlockTimestamp(blockNumber) == 1500000 + 15 * blockNumber

\* app.web3Eth('getBlock', blockNumber): the block, or an error
GetBlockOutcomes(blockNumber) ==
  {Ok([timestamp |-> BlockTimestamp(blockNumber)]), Err}

(***************************************************************************)
(* Event handlers (script.js 118-185).  Each returns the value its promise *)
(* settles with: a state object, Undefined, or Rejected.                   *)
(***************************************************************************)
updateConnectedAccount(state, returnValues) ==
  SetKey(state, "account", returnValues.account)

\* the descriptor of a token of a creation event
tokenDescriptor(tokenAddress, settings) ==
  IF tokenAddress = ETHER_TOKEN_FAKE_ADDRESS
  THEN ETHER_DATA
  ELSE getTokenData(tokenAddress, settings, chain[tokenAddress])

\* the record newTokenRequest appends
tokenRequest(returnValues, deposit, request, timestamp) ==
  [requestId |-> returnValues.requestId,
   requesterAddress |-> returnValues.requesterAddress,
   depositToken |-> returnValues.depositToken,
   depositDecimals |-> deposit.decimals,
   depositName |-> deposit.name,
   depositSymbol |-> deposit.symbol,
   depositAmount |-> returnValues.depositAmount,
   requestToken |-> returnValues.requestToken,
   requestDecimals |-> request.decimals,
   requestName |-> request.name,
   requestSymbol |-> request.symbol,
   requestAmount |-> returnValues.requestAmount,
   requestTokenId |-> returnValues.requestTokenId,
   reference |-> returnValues.reference,
   status |-> PENDING,
   date |-> marshallDate(timestamp)]

\* Mutant: a creation event whose requestId is already in requests resets
\* that record instead of appending a new one
newTokenRequestResetsExisting(state, returnValues, settings, block) ==
  LET requests == IF Get(state, "requests") = Undefined
                  THEN Array(<< >>) ELSE state.requests
      deposit == tokenDescriptor(returnValues.depositToken, settings)
      request == tokenDescriptor(returnValues.requestToken, settings)
      index == findIndex(requests.items, returnValues.requestId)
  IN IF ~block.ok
     THEN Undefined
     ELSE IF index # 0
          THEN SetKey(state, "requests",
                 Array([requests.items EXCEPT ![index] =
                          tokenRequest(returnValues, deposit, request,
                                       block.value.timestamp)]))
          ELSE SetKey(state, "requests",
                 Array(Append(requests.items,
                   tokenRequest(returnValues, deposit, request,
                                block.value.timestamp))))

\* block: the outcome of the getBlock call.  getTokenData never rejects, so
\* the block lookup is the only await of the try block that can throw.
newTokenRequest(state, returnValues, settings, block) ==
  LET requests == IF Get(state, "requests") = Undefined
                  THEN Array(<< >>) ELSE state.requests
      deposit == tokenDescriptor(returnValues.depositToken, settings)
      request == tokenDescriptor(returnValues.requestToken, settings)
  IN IF ~block.ok
     THEN Undefined      \* caught and logged: the function returns nothing
     ELSE SetKey(state, "requests",
            Array(Append(requests.items,
              tokenRequest(returnValues, deposit, request,
                           block.value.timestamp))))

\* await of a rejected promise rethrows: the handler's promise rejects too
requestRefunded(state, returnValues) ==
  LET requests == Get(state, "requests")
      nextStatus == WITHDRAWN
      updated == updateRequestStatus(requests, returnValues.requestId, nextStatus)
  IN IF updated = Rejected
     THEN Rejected
     ELSE SetKey(state, "requests", updated)

requestFinalised(state, returnValues) ==
  LET requests == Get(state, "requests")
      nextStatus == APPROVED
      updated == updateRequestStatus(requests, returnValues.requestId, nextStatus)
  IN IF updated = Rejected
     THEN Rejected
     ELSE SetKey(state, "requests", updated)

(***************************************************************************)
(* The reducer handed to app.store (script.js 49-70).  block is the        *)
(* outcome of the getBlock call, which only a creation event makes.        *)
(***************************************************************************)
nextState(state) == Spread(state)

\* Mutant: the default case returns the copy nextState instead of state
reducerDefaultReturnsCopy(state, ev, settings, block) ==
  CASE ev.event = ACCOUNTS_TRIGGER ->
         updateConnectedAccount(nextState(state), ev.returnValues)
    [] ev.event = SYNC_STATUS_SYNCING -> SetKey(nextState(state), "isSyncing", TRUE)
    [] ev.event = SYNC_STATUS_SYNCED -> SetKey(nextState(state), "isSyncing", FALSE)
    [] ev.event = "TokenRequestCreated" ->
         newTokenRequest(nextState(state), ev.returnValues, settings, block)
    [] ev.event = "TokenRequestRefunded" ->
         requestRefunded(nextState(state), ev.returnValues)
    [] ev.event = "TokenRequestFinalised" ->
         requestFinalised(nextState(state), ev.returnValues)
    [] OTHER -> nextState(state)

reducer(state, ev, settings, block) ==
  CASE ev.event = ACCOUNTS_TRIGGER ->
         updateConnectedAccount(nextState(state), ev.returnValues)
    [] ev.event = SYNC_STATUS_SYNCING -> SetKey(nextState(state), "isSyncing", TRUE)
    [] ev.event = SYNC_STATUS_SYNCED -> SetKey(nextState(state), "isSyncing", FALSE)
    [] ev.event = "TokenRequestCreated" ->
         newTokenRequest(nextState(state), ev.returnValues, settings, block)
    [] ev.event = "TokenRequestRefunded" ->
         requestRefunded(nextState(state), ev.returnValues)
    [] ev.event = "TokenRequestFinalised" ->
         requestFinalised(nextState(state), ev.returnValues)
    [] OTHER -> state

(***************************************************************************)
(* The program: bootstrap, then the store applying the log.                *)
(***************************************************************************)
VARIABLES
  pc,           \* phase of the script
  cachedState,  \* the state the store cached in a previous run (or null)
  tokens,       \* initialize: the accepted deposit token addresses
  orgTokens,    \* initializeState: the descriptors pushed so far
  state,        \* the state the store holds (the reducer's accumulator)
  inflight,     \* reducer invocations whose promise has not settled yet:
                \* the await each is suspended at and the awaits it is past
  delivered,    \* number of log events handed to the reducer
  committed,    \* number of log events whose result the store has taken
  lastEvent,    \* the log event most recently handed to the reducer
  networkType,  \* network.type delivered by app.network()
  acceptedDepositTokens,  \* the list the token request contract holds
  completed,    \* history: the bootstrap calls that have settled, and how
  resolution    \* a token address handed to getTokenData and its descriptor

vars == <<pc, cachedState, tokens, orgTokens, state, inflight, delivered,
          committed, lastEvent, chain, networkType, acceptedDepositTokens,
          completed, resolution>>

\* what the script finds outside itself; no step of the script changes it
env == <<chain, networkType, acceptedDepositTokens>>

\* settings = { network }
Settings == [network |-> [type |-> networkType]]

\* The organization: its token managers and the token each one manages
TokenManagers == <<"0xTM1", "0xTM2">>
ManagedToken(tokenManager) == IF tokenManager = "0xTM1" THEN "0xORG" ELSE "0xBBB"

\* The lists the token request contract may hold
AcceptedTokenLists == {<<"0xAAA">>, <<"0xAAA", ETHER_TOKEN_FAKE_ADDRESS, "0xDA1">>}

\* The token addresses of the modelled chain
TokenAddresses == {"0xAAA", "0xBBB", "0xDA1", "0xORG"}

\* A request record as a previous run left it in the cache (block 0)
CachedRequest ==
  newTokenRequest(EmptyObject, CreatedValues(1, <<"0xBBB", "0xDA1">>), Settings,
                  Ok([timestamp |-> BlockTimestamp(0)])).requests.items[1]

CachedStates ==
  {Null,
   [account |-> "0xACC1", isSyncing |-> FALSE,
    requests |-> Array(<<CachedRequest>>)]}

\* the script has been loaded and nothing has run yet
Loaded ==
  /\ tokens = << >>
  /\ orgTokens = << >>
  /\ state = Undefined
  /\ inflight = {}
  /\ delivered = 0
  /\ committed = 0
  /\ lastEvent = Null
  /\ completed = {}

Init ==
  /\ pc = "getTokenManagers"
  /\ chain = [tokenAddress \in TokenAddresses |-> Chain(tokenAddress)]
  /\ networkType = NetworkType
  /\ acceptedDepositTokens \in AcceptedTokenLists
  /\ cachedState \in CachedStates
  /\ resolution = Null
  /\ Loaded

(***************************************************************************)
(* Bootstrap (script.js 23-45, 83-116)                                     *)
(***************************************************************************)
\* an external call of the bootstrap has settled
Done(call) == [call |-> call, ok |-> TRUE]
Failed(call) == [call |-> call, ok |-> FALSE]

\* app.call('getTokenManagers') delivers the addresses: initialize starts
GetTokenManagers ==
  /\ pc = "getTokenManagers"
  /\ pc' = "network"
  /\ completed' = completed \cup {Done("getTokenManagers")}
  /\ UNCHANGED <<env, resolution, cachedState, tokens, orgTokens, state, inflight, delivered, committed, lastEvent>>

\* Mutant: the error callback starts initialize as well
GetTokenManagersFailedStartsAnyway ==
  /\ pc = "getTokenManagers"
  /\ pc' = "network"
  /\ completed' = completed \cup {Failed("getTokenManagers")}
  /\ UNCHANGED <<env, resolution, cachedState, tokens, orgTokens, state, inflight, delivered, committed, lastEvent>>

\* ... or fails: the error is logged and initialize never runs
GetTokenManagersFailed ==
  /\ pc = "getTokenManagers"
  /\ pc' = "failed"
  /\ completed' = completed \cup {Failed("getTokenManagers")}
  /\ UNCHANGED <<env, resolution, cachedState, tokens, orgTokens, state, inflight, delivered, committed, lastEvent>>

\* await app.network()
Network ==
  /\ pc = "network"
  /\ pc' = "getAcceptedDepositTokens"
  /\ completed' = completed \cup {Done("network")}
  /\ UNCHANGED <<env, resolution, cachedState, tokens, orgTokens, state, inflight, delivered, committed, lastEvent>>

\* the network lookup fails: initialize rejects and no store is created
NetworkFailed ==
  /\ pc = "network"
  /\ pc' = "rejected"
  /\ completed' = completed \cup {Failed("network")}
  /\ UNCHANGED <<env, resolution, cachedState, tokens, orgTokens, state, inflight, delivered, committed, lastEvent>>

\* tokens = await app.call('getAcceptedDepositTokens'); createStore follows
GetAcceptedDepositTokens ==
  /\ pc = "getAcceptedDepositTokens"
  /\ tokens' = acceptedDepositTokens
  /\ pc' = "initializeState"
  /\ completed' = completed \cup {Done("getAcceptedDepositTokens")}
  /\ UNCHANGED <<env, resolution, cachedState, orgTokens, state, inflight, delivered, committed, lastEvent>>

\* the call fails: initialize rejects and no store is created
GetAcceptedDepositTokensFailed ==
  /\ pc = "getAcceptedDepositTokens"
  /\ pc' = "rejected"
  /\ completed' = completed \cup {Failed("getAcceptedDepositTokens")}
  /\ UNCHANGED <<env, resolution, cachedState, tokens, orgTokens, state, inflight, delivered, committed, lastEvent>>

\* Mutant: a token whose metadata call raises aborts the whole loop
InitTokenManagerAbortsOnFailedLookup ==
  /\ pc = "initializeState"
  /\ Len(orgTokens) < Len(TokenManagers)
  /\ LET minimeAddress == ManagedToken(TokenManagers[Len(orgTokens) + 1])
         calls == chain[minimeAddress]
         token == getTokenData(minimeAddress, Settings, calls)
     IN IF calls.decimals.ok /\ calls.name.ok /\ calls.symbol.ok
        THEN /\ orgTokens' = Append(orgTokens, token)
             /\ UNCHANGED <<pc, state, completed>>
        ELSE /\ state' = Undefined
             /\ pc' = "running"
             /\ completed' = completed \cup {Failed("getTokenData")}
             /\ UNCHANGED orgTokens
  /\ UNCHANGED <<env, resolution, cachedState, tokens, inflight, delivered, committed, lastEvent>>

\* one turn of the loop over the token manager contracts
InitTokenManager ==
  /\ pc = "initializeState"
  /\ Len(orgTokens) < Len(TokenManagers)
  /\ LET minimeAddress == ManagedToken(TokenManagers[Len(orgTokens) + 1])
         token == getTokenData(minimeAddress, Settings, chain[minimeAddress])
     IN orgTokens' = Append(orgTokens, token)
  /\ UNCHANGED <<env, resolution, completed, pc, cachedState, tokens, state, inflight, delivered, committed, lastEvent>>

\* tokenManagerContract.token() fails: caught, logged, init returns nothing
InitTokenManagerFailed ==
  /\ pc = "initializeState"
  /\ Len(orgTokens) < Len(TokenManagers)
  /\ state' = Undefined
  /\ pc' = "running"
  /\ completed' = completed \cup {Failed("token")}
  /\ UNCHANGED <<env, resolution, cachedState, tokens, orgTokens, inflight, delivered, committed, lastEvent>>

\* tokens.includes(ETHER_TOKEN_FAKE_ADDRESS)
includes(list, x) == \E i \in 1..Len(list) : list[i] = x

\* tokens.filter(token => token != ETHER_TOKEN_FAKE_ADDRESS)
RECURSIVE filterNotEther(_)
filterNotEther(list) ==
  IF list = << >> THEN << >>
  ELSE IF list[1] = ETHER_TOKEN_FAKE_ADDRESS
       THEN filterNotEther(Tail(list))
       ELSE <<list[1]>> \o filterNotEther(Tail(list))

getAcceptedTokens(list, settings) ==
  LET kept == filterNotEther(list)
  IN [i \in 1..Len(kept) |-> getTokenData(kept[i], settings, chain[kept[i]])]

\* Mutant: the Ether entry is pushed at the end instead of unshifted
initializeStatePushesEther(cached, tokenList, orgTokenList, settings) ==
  LET resolved == getAcceptedTokens(tokenList, settings)
      acceptedTokens ==
        IF includes(tokenList, ETHER_TOKEN_FAKE_ADDRESS)
        THEN resolved \o
             <<[decimals |-> ETHER_DATA.decimals, name |-> ETHER_DATA.name,
                symbol |-> ETHER_DATA.symbol,
                address |-> ETHER_TOKEN_FAKE_ADDRESS]>>
        ELSE resolved
  IN SetKey(SetKey(SetKey(Spread(cached), "isSyncing", TRUE),
                   "orgTokens", Array(orgTokenList)),
            "acceptedTokens", Array(acceptedTokens))

\* the seed the init function returns once the loop is over
initializeState(cached, tokenList, orgTokenList, settings) ==
  LET resolved == getAcceptedTokens(tokenList, settings)
      acceptedTokens ==
        IF includes(tokenList, ETHER_TOKEN_FAKE_ADDRESS)
        THEN <<[decimals |-> ETHER_DATA.decimals, name |-> ETHER_DATA.name,
                symbol |-> ETHER_DATA.symbol,
                address |-> ETHER_TOKEN_FAKE_ADDRESS]>> \o resolved
        ELSE resolved
  IN SetKey(SetKey(SetKey(Spread(cached), "isSyncing", TRUE),
                   "orgTokens", Array(orgTokenList)),
            "acceptedTokens", Array(acceptedTokens))

InitState ==
  /\ pc = "initializeState"
  /\ Len(orgTokens) = Len(TokenManagers)
  /\ state' = initializeState(cachedState, tokens, orgTokens, Settings)
  /\ pc' = "running"
  /\ completed' = completed \cup {Done("initializeState")}
  /\ UNCHANGED <<env, resolution, cachedState, tokens, orgTokens, inflight, delivered, committed, lastEvent>>

(***************************************************************************)
(* The store (script.js 47-75).  app.store hands the log events to the     *)
(* reducer one at a time: the next event is taken only when the promise    *)
(* the reducer returned for the previous one has settled and its value     *)
(* has become the store's state.                                           *)
(***************************************************************************)
\* Mutant: the store takes the next event while a reduction is in flight
StoreAlwaysReady == TRUE

StoreReady == inflight = {}

\* the store takes the value the reducer's promise settled with; a rejected
\* promise ends the store's event pipeline
Commit(result) ==
  IF result = Rejected
  THEN /\ pc' = "errored"
       /\ UNCHANGED <<state, committed>>
  ELSE /\ state' = result
       /\ committed' = committed + 1
       /\ pc' = pc

\* the store takes the next log event
CanTake ==
  /\ pc = "running"
  /\ StoreReady
  /\ delivered < MaxEvents

\* an event whose handler makes no external call: its promise settles
\* without the script yielding to any other work
Settle(kind, returnValues) ==
  /\ Commit(reducer(state, LogEvent(kind, returnValues, delivered + 1),
                    Settings, Err))
  /\ delivered' = delivered + 1
  /\ lastEvent' = LogEvent(kind, returnValues, delivered + 1)
  /\ UNCHANGED <<env, resolution, completed, cachedState, tokens, orgTokens, inflight>>

AccountsTrigger ==
  /\ CanTake
  /\ \E returnValues \in ReturnValues[ACCOUNTS_TRIGGER] :
       Settle(ACCOUNTS_TRIGGER, returnValues)

SyncStatusSyncing ==
  /\ CanTake
  /\ \E returnValues \in ReturnValues[SYNC_STATUS_SYNCING] :
       Settle(SYNC_STATUS_SYNCING, returnValues)

SyncStatusSynced ==
  /\ CanTake
  /\ \E returnValues \in ReturnValues[SYNC_STATUS_SYNCED] :
       Settle(SYNC_STATUS_SYNCED, returnValues)

TokenRequestRefunded ==
  /\ CanTake
  /\ \E returnValues \in ReturnValues["TokenRequestRefunded"] :
       Settle("TokenRequestRefunded", returnValues)

TokenRequestFinalised ==
  /\ CanTake
  /\ \E returnValues \in ReturnValues["TokenRequestFinalised"] :
       Settle("TokenRequestFinalised", returnValues)

UnknownEvent ==
  /\ CanTake
  /\ \E returnValues \in ReturnValues["SomethingElse"] :
       Settle("SomethingElse", returnValues)

\* Mutant: the request token is resolved first
FirstAwaitRequestToken(returnValues) ==
  IF returnValues.requestToken # ETHER_TOKEN_FAKE_ADDRESS THEN "requestToken"
  ELSE IF returnValues.depositToken # ETHER_TOKEN_FAKE_ADDRESS THEN "depositToken"
  ELSE "getBlock"

\* the first await newTokenRequest suspends at, for these returnValues
FirstAwait(returnValues) ==
  IF returnValues.depositToken # ETHER_TOKEN_FAKE_ADDRESS THEN "depositToken"
  ELSE IF returnValues.requestToken # ETHER_TOKEN_FAKE_ADDRESS THEN "requestToken"
  ELSE "getBlock"

\* the await that follows the deposit token's getTokenData
AwaitAfterDeposit(returnValues) ==
  IF returnValues.requestToken # ETHER_TOKEN_FAKE_ADDRESS THEN "requestToken"
  ELSE "getBlock"

\* the reducer is invoked for a creation event and suspends at its first await
TokenRequestCreated ==
  /\ CanTake
  /\ \E returnValues \in ReturnValues["TokenRequestCreated"] :
       /\ inflight' = inflight \cup
            {[n |-> delivered + 1,
              event |-> LogEvent("TokenRequestCreated", returnValues, delivered + 1),
              state |-> state,
              awaiting |-> FirstAwait(returnValues),
              settled |-> {}]}
       /\ lastEvent' = LogEvent("TokenRequestCreated", returnValues, delivered + 1)
  /\ delivered' = delivered + 1
  /\ UNCHANGED <<env, resolution, completed, pc, cachedState, tokens, orgTokens, state, committed>>

\* getTokenData(depositToken) settles (it never rejects)
DepositTokenResolved ==
  /\ pc = "running"
  /\ \E r \in inflight :
       /\ r.awaiting = "depositToken"
       /\ inflight' = (inflight \ {r}) \cup
            {[r EXCEPT !.awaiting = AwaitAfterDeposit(r.event.returnValues),
                       !.settled = @ \cup {"depositToken"}]}
  /\ UNCHANGED <<env, resolution, completed, pc, cachedState, tokens, orgTokens, state, delivered, committed, lastEvent>>

\* getTokenData(requestToken) settles
RequestTokenResolved ==
  /\ pc = "running"
  /\ \E r \in inflight :
       /\ r.awaiting = "requestToken"
       /\ inflight' = (inflight \ {r}) \cup
            {[r EXCEPT !.awaiting = "getBlock",
                       !.settled = @ \cup {"requestToken"}]}
  /\ UNCHANGED <<env, resolution, completed, pc, cachedState, tokens, orgTokens, state, delivered, committed, lastEvent>>

\* getBlock settles, with the block or with an error: the handler's promise
\* settles and the store takes its value
BlockResolved ==
  /\ pc = "running"
  /\ \E r \in inflight :
       /\ r.awaiting = "getBlock"
       /\ \E block \in GetBlockOutcomes(r.event.blockNumber) :
            Commit(reducer(r.state, r.event, Settings, block))
       /\ inflight' = inflight \ {r}
  /\ UNCHANGED <<env, resolution, completed, cachedState, tokens, orgTokens, delivered, lastEvent>>

Next ==
  \/ GetTokenManagers
  \/ GetTokenManagersFailed
  \/ Network
  \/ NetworkFailed
  \/ GetAcceptedDepositTokens
  \/ GetAcceptedDepositTokensFailed
  \/ InitTokenManager
  \/ InitTokenManagerFailed
  \/ InitState
  \/ AccountsTrigger
  \/ SyncStatusSyncing
  \/ SyncStatusSynced
  \/ TokenRequestCreated
  \/ DepositTokenResolved
  \/ RequestTokenResolved
  \/ BlockResolved
  \/ TokenRequestRefunded
  \/ TokenRequestFinalised
  \/ UnknownEvent

Spec == Init /\ [][Next]_vars

(***************************************************************************)
(* getTokenData on its own (script.js 193-258): one token address, on any  *)
(* network, whose three calls may each deliver a value, deliver an empty   *)
(* value, or raise.                                                        *)
(***************************************************************************)
NetworkTypes == {"main", "rinkeby"}

TokenCalls ==
  [decimals : {Ok(Num(6)), Ok(Num(0)), Err},
   name : {Ok("Aaa"), Ok(""), Err},
   symbol : {Ok("AAA"), Ok(""), Err}]

InitResolver ==
  /\ pc = "getTokenData"
  /\ \E tokenAddress \in TokenAddresses, calls \in TokenCalls :
       /\ chain = [a \in TokenAddresses |->
                     IF a = tokenAddress THEN calls ELSE Chain(a)]
       /\ resolution = [tokenAddress |-> tokenAddress, token |-> Null]
  /\ networkType \in NetworkTypes
  /\ acceptedDepositTokens = << >>
  /\ cachedState = Null
  /\ Loaded

\* const token = await getTokenData(tokenAddress, settings)
ResolveToken ==
  /\ pc = "getTokenData"
  /\ resolution' =
       [resolution EXCEPT
          !.token = getTokenData(resolution.tokenAddress, Settings,
                                 chain[resolution.tokenAddress])]
  /\ pc' = "resolved"
  /\ UNCHANGED <<env, completed, cachedState, tokens, orgTokens, state, inflight, delivered, committed, lastEvent>>

SpecResolver == InitResolver /\ [][ResolveToken]_vars

(***************************************************************************)
(* The bootstrap on its own (script.js 23-45, 83-116): any list of         *)
(* accepted deposit tokens of up to MaxTokens addresses, and managed       *)
(* tokens whose three calls may each deliver a value, deliver an empty     *)
(* value, or raise.                                                        *)
(***************************************************************************)
AllTokenLists ==
  UNION {[1..n -> {ETHER_TOKEN_FAKE_ADDRESS, "0xAAA", "0xDA1"}] : n \in 0..MaxTokens}

ManagedTokens == {ManagedToken(TokenManagers[i]) : i \in 1..Len(TokenManagers)}

InitBootstrap ==
  /\ pc = "getTokenManagers"
  /\ chain \in {[a \in TokenAddresses |->
                   IF a \in ManagedTokens THEN calls[a] ELSE Chain(a)] :
                calls \in [ManagedTokens -> TokenCalls]}
  /\ networkType = NetworkType
  /\ acceptedDepositTokens \in AllTokenLists
  /\ cachedState \in CachedStates
  /\ resolution = Null
  /\ Loaded

NextBootstrap ==
  \/ GetTokenManagers
  \/ GetTokenManagersFailed
  \/ Network
  \/ NetworkFailed
  \/ GetAcceptedDepositTokens
  \/ GetAcceptedDepositTokensFailed
  \/ InitTokenManager
  \/ InitTokenManagerFailed
  \/ InitState

SpecBootstrap == InitBootstrap /\ [][NextBootstrap]_vars

(***************************************************************************)
(* Notions the properties below are stated with                            *)
(***************************************************************************)
\* the request records a state holds (none when the state, or its requests
\* key, is undefined)
RequestItems(s) ==
  IF s = Undefined THEN << >>
  ELSE IF Get(s, "requests") = Undefined THEN << >>
  ELSE s.requests.items

\* the state holds a requests array
HasRequests(s) == s # Undefined /\ Get(s, "requests") # Undefined

Terminal == {APPROVED, WITHDRAWN}
TransitionKinds == {"TokenRequestRefunded", "TokenRequestFinalised"}

\* every event the log may carry next
EventsAt(blockNumber) ==
  UNION {{LogEvent(kind, returnValues, blockNumber) :
            returnValues \in ReturnValues[kind]} : kind \in EventKinds}

LastKind == IF lastEvent = Null THEN "none" ELSE lastEvent.event

(***************************************************************************)
(* C1 -- Events are applied one at a time, in log order: at most one       *)
(* reducer invocation is in flight; it is the invocation for the event     *)
(* right after the last committed one, and the state it was handed is      *)
(* still the state the store holds, so no other event has been applied     *)
(* while its lookups were pending.  When nothing is in flight every        *)
(* delivered event has been committed.                                     *)
(***************************************************************************)
C1_OneEventAtATime ==
  /\ Cardinality(inflight) <= 1
  /\ \A r \in inflight :
       /\ r.n = committed + 1
       /\ r.n = delivered
       /\ r.event = lastEvent
       /\ r.state = state
  /\ (pc = "running" /\ inflight = {}) => committed = delivered

\* a second event for a requestId waits for its block while the first
\* event's record is already committed
C1_Witness ==
  \E r \in inflight :
    /\ r.awaiting = "getBlock"
    /\ committed >= 1
    /\ \E i \in 1..Len(RequestItems(state)) :
         RequestItems(state)[i].requestId = r.event.returnValues.requestId

(***************************************************************************)
(* C2 -- A request-refunded or request-finalised event that targets a      *)
(* request whose status is already APPROVED or WITHDRAWN leaves the state  *)
(* unchanged.                                                              *)
(***************************************************************************)
C2_TerminalTransitionRejected ==
  pc = "running" =>
    \A ev \in EventsAt(delivered + 1) :
      LET index == findIndex(RequestItems(state), ev.returnValues.requestId)
      IN (/\ ev.event \in TransitionKinds
          /\ HasRequests(state)
          /\ index # 0
          /\ RequestItems(state)[index].status \in Terminal)
         => reducer(state, ev, Settings, Err) = state

C4_UnknownRequestIdUnchanged ==
  pc = "running" =>
    \A ev \in EventsAt(delivered + 1) :
      (/\ ev.event \in TransitionKinds
       /\ HasRequests(state)
       /\ findIndex(RequestItems(state), ev.returnValues.requestId) = 0)
      => reducer(state, ev, Settings, Err) = state

(***************************************************************************)
(* C5 -- A request-created event whose enrichment fails (the block lookup  *)
(* raises an error) is dropped: the reducer yields the state it was given. *)
(***************************************************************************)
C5_FailedCreationDropped ==
  pc = "running" =>
    \A ev \in EventsAt(delivered + 1) :
      ev.event = "TokenRequestCreated"
      => reducer(state, ev, Settings, Err) = state

(***************************************************************************)
(* C6 -- The reducer is total: in every state the store can hold, for      *)
(* every event and every outcome of the block lookup, the reducer's        *)
(* promise does not reject.                                                *)
(***************************************************************************)
C6_ReducerTotal ==
  pc = "running" =>
    \A ev \in EventsAt(delivered + 1) :
      \A block \in GetBlockOutcomes(ev.blockNumber) :
        reducer(state, ev, Settings, block) # Rejected

(***************************************************************************)
(* C7 -- Replay is idempotent: reducing an event a second time yields the  *)
(* state the first reduction yielded.                                      *)
(***************************************************************************)
C7_ReplayIdempotent ==
  pc = "running" =>
    \A ev \in EventsAt(delivered + 1) :
      \A block \in GetBlockOutcomes(ev.blockNumber) :
        LET once == reducer(state, ev, Settings, block)
        IN once # Rejected => reducer(once, ev, Settings, block) = once

(***************************************************************************)
(* C8 -- requestId is unique across requests in every reachable state.     *)
(***************************************************************************)
C8_RequestIdUnique ==
  \A i, j \in 1..Len(RequestItems(state)) :
    RequestItems(state)[i].requestId = RequestItems(state)[j].requestId => i = j

(***************************************************************************)
(* C9 -- The records of requests are in the order of their creation        *)
(* events: the log delivers one event per block and block timestamps       *)
(* increase, so the creation dates increase strictly along requests,       *)
(* whatever awaits each creation went through and whatever events were     *)
(* applied afterwards.                                                     *)
(***************************************************************************)
C9_CreationOrder ==
  \A i, j \in 1..Len(RequestItems(state)) :
    i < j => RequestItems(state)[i].date < RequestItems(state)[j].date

\* two creations that awaited different lookups, then a transition of the
\* earlier record
C9_Witness ==
  /\ Len(RequestItems(state)) >= 2
  /\ RequestItems(state)[1].depositToken # RequestItems(state)[2].depositToken
  /\ RequestItems(state)[1].status # PENDING
  /\ LastKind \in TransitionKinds

(***************************************************************************)
(* C10 -- An event of an unrecognized kind is the identity: the step that  *)
(* applies it leaves the store's state as it was and raises nothing.       *)
(***************************************************************************)
C10_UnknownEventIdentity ==
  [][(lastEvent' # lastEvent /\ lastEvent'.event = "SomethingElse")
     => (state' = state /\ pc' = "running" /\ committed' = committed + 1)]_vars

\* an unknown event was applied to a state holding requests
C10_Witness ==
  /\ LastKind = "SomethingElse"
  /\ pc = "running"
  /\ committed = delivered
  /\ Len(RequestItems(state)) >= 1

(***************************************************************************)
(* C11: the descriptor getTokenData returns is complete, and each of its   *)
(* three fields is decided on its own: the value its call delivered when   *)
(* the call succeeded with a truthy value; otherwise the fallback table's  *)
(* entry for (tokenAddress, networkType) when there is one; otherwise ''   *)
(* for name and symbol and the string "0" for decimals.  Checked under     *)
(* SpecResolver, for every combination of value / empty / error.           *)
(***************************************************************************)
ExpectedField(call, empty, entry, default) ==
  IF call.ok /\ call.value \notin empty THEN call.value
  ELSE IF entry # Null THEN entry.value
  ELSE default

C11_ResolverComplete ==
  pc = "resolved" =>
    LET tokenAddress == resolution.tokenAddress
        token == resolution.token
        calls == chain[tokenAddress]
    IN /\ DOMAIN token = {"decimals", "name", "symbol", "address"}
       /\ token.address = tokenAddress
       /\ token.decimals =
            ExpectedField(calls.decimals, {Num(0), Str("")},
                      tokenDataFallback(tokenAddress, "decimals", networkType),
                      Str("0"))
       /\ token.name =
            ExpectedField(calls.name, {""},
                      tokenDataFallback(tokenAddress, "name", networkType), "")
       /\ token.symbol =
            ExpectedField(calls.symbol, {""},
                      tokenDataFallback(tokenAddress, "symbol", networkType), "")

\* one descriptor mixing the three cases: decimals delivered as 0 (falsy) on a
\* token without table entry, name delivered, symbol call raised
C11_Witness ==
  /\ pc = "resolved"
  /\ resolution.tokenAddress = "0xAAA"
  /\ chain["0xAAA"] = [decimals |-> Ok(Num(0)), name |-> Ok("Aaa"), symbol |-> Err]
  /\ resolution.token = [decimals |-> Str("0"), name |-> "Aaa", symbol |-> "",
                         address |-> "0xAAA"]

(***************************************************************************)
(* C12: after a successful bootstrap, when the accepted deposit token list *)
(* holds the Ether sentinel at any position, acceptedTokens[0] is          *)
(* {decimals: 18, name: 'Ether', symbol: 'ETH', address: sentinel} and the *)
(* rest are the descriptors of the non-sentinel addresses in the order of  *)
(* the list; when it does not, acceptedTokens are exactly the descriptors  *)
(* of the list's addresses in order, with no Ether entry.                  *)
(***************************************************************************)
C12_NotEther(tokenAddress) == tokenAddress # ETHER_TOKEN_FAKE_ADDRESS

C12_AcceptedTokensOrder ==
  Done("initializeState") \in completed =>
    LET accepted == state.acceptedTokens.items
        others == SelectSeq(tokens, C12_NotEther)
        shift == IF \E i \in 1..Len(tokens) : tokens[i] = ETHER_TOKEN_FAKE_ADDRESS
                 THEN 1 ELSE 0
    IN /\ Len(accepted) = Len(others) + shift
       /\ shift = 1 =>
            accepted[1] = [decimals |-> Num(18), name |-> "Ether",
                           symbol |-> "ETH",
                           address |-> ETHER_TOKEN_FAKE_ADDRESS]
       /\ \A i \in 1..Len(others) :
            /\ accepted[i + shift].address = others[i]
            /\ accepted[i + shift] = getTokenData(others[i], Settings, chain[others[i]])

\* the sentinel is the last of three accepted tokens and the seed is there
C12_Witness ==
  /\ Done("initializeState") \in completed
  /\ tokens = <<"0xDA1", "0xAAA", ETHER_TOKEN_FAKE_ADDRESS>>
  /\ state.acceptedTokens.items[1].address = ETHER_TOKEN_FAKE_ADDRESS
  /\ state.acceptedTokens.items[2].address = "0xDA1"

(***************************************************************************)
(* C13: when the bootstrap pipeline fails as a whole (a token manager's    *)
(* managed-token lookup raises), the failure is caught and the seed it     *)
(* yields equals the prior cached state, with no new field populated.      *)
(* (No cached state and no seed count as equal.)                           *)
(***************************************************************************)
C13_FailedBootstrapYieldsCache ==
  Failed("token") \in completed =>
    /\ pc = "running"
    /\ IF cachedState = Null THEN state \in {Null, Undefined}
       ELSE state = cachedState

(***************************************************************************)
(* C14: the token managers are processed independently: whichever of the   *)
(* managed tokens' metadata calls raise, the loop goes on, and the seed    *)
(* has isSyncing = true and orgTokens holding exactly one descriptor per   *)
(* token manager, in discovery order, each failed field replaced by its    *)
(* fallback.  The loop ends without a seed only when token() raised.       *)
(***************************************************************************)
C14_ManagersIndependent ==
  /\ (pc = "running" /\ Done("initializeState") \notin completed)
       => Failed("token") \in completed
  /\ Done("initializeState") \in completed =>
       /\ state.isSyncing = TRUE
       /\ Len(state.orgTokens.items) = Len(TokenManagers)
       /\ \A i \in 1..Len(TokenManagers) :
            LET tokenAddress == ManagedToken(TokenManagers[i])
                token == state.orgTokens.items[i]
                calls == chain[tokenAddress]
            IN /\ token.address = tokenAddress
               /\ token.decimals =
                    ExpectedField(calls.decimals, {Num(0), Str("")},
                                  tokenDataFallback(tokenAddress, "decimals", networkType),
                                  Str("0"))
               /\ token.name =
                    ExpectedField(calls.name, {""},
                                  tokenDataFallback(tokenAddress, "name", networkType), "")
               /\ token.symbol =
                    ExpectedField(calls.symbol, {""},
                                  tokenDataFallback(tokenAddress, "symbol", networkType), "")

\* every call of the first manager's token raises, those of the second
\* deliver, and the seed holds both descriptors
C14_Witness ==
  /\ Done("initializeState") \in completed
  /\ chain["0xORG"] = [decimals |-> Err, name |-> Err, symbol |-> Err]
  /\ chain["0xBBB"] = [decimals |-> Ok(Num(6)), name |-> Ok("Aaa"), symbol |-> Ok("AAA")]
  /\ state.orgTokens.items =
       <<[decimals |-> Str("0"), name |-> "", symbol |-> "", address |-> "0xORG"],
         [decimals |-> Num(6), name |-> "Aaa", symbol |-> "AAA", address |-> "0xBBB"]>>

(***************************************************************************)
(* C15: when the token manager discovery call fails, the pipeline never    *)
(* starts: no further call is made, no store state exists and no event is  *)
(* ever handed to or applied by the reducer.  Conversely an event reaches  *)
(* the reducer only after the discovery call, the network lookup and the   *)
(* accepted deposit token call have all completed.                         *)
(***************************************************************************)
C15_EventsOnlyAfterBootstrap ==
  /\ Failed("getTokenManagers") \in completed =>
       /\ completed = {Failed("getTokenManagers")}
       /\ delivered = 0 /\ committed = 0 /\ inflight = {}
       /\ state = Undefined
  /\ (delivered > 0 \/ committed > 0 \/ inflight # {}) =>
       {Done("getTokenManagers"), Done("network"),
        Done("getAcceptedDepositTokens")} \subseteq completed

\* the first event has been applied, after the three calls
C15_Witness ==
  /\ delivered = 1 /\ committed = 1
  /\ {Done("getTokenManagers"), Done("network"),
      Done("getAcceptedDepositTokens")} \subseteq completed

(***************************************************************************)
(* C16: a request-created event whose lookups all succeed yields a state   *)
(* whose requests is the previous sequence, unchanged, followed by exactly *)
(* one new record carrying the event's requestId, requester, token         *)
(* addresses, amounts, requestTokenId and reference, status PENDING and    *)
(* date = block timestamp (seconds) * 1000; a sentinel deposit or request  *)
(* token gets the constant Ether descriptor (18, 'Ether', 'ETH'), any      *)
(* other token the resolver's; every other key of the state is unchanged.  *)
(* Stated of every reduction that is about to receive its block.           *)
(***************************************************************************)
C16_Descriptor(tokenAddress) ==
  IF tokenAddress = ETHER_TOKEN_FAKE_ADDRESS
  THEN [decimals |-> Num(18), name |-> "Ether", symbol |-> "ETH"]
  ELSE getTokenData(tokenAddress, Settings, chain[tokenAddress])

C16_Record(ev) ==
  LET rv == ev.returnValues
      deposit == C16_Descriptor(rv.depositToken)
      request == C16_Descriptor(rv.requestToken)
  IN [requestId |-> rv.requestId, requesterAddress |-> rv.requesterAddress,
      depositToken |-> rv.depositToken, depositDecimals |-> deposit.decimals,
      depositName |-> deposit.name, depositSymbol |-> deposit.symbol,
      depositAmount |-> rv.depositAmount,
      requestToken |-> rv.requestToken, requestDecimals |-> request.decimals,
      requestName |-> request.name, requestSymbol |-> request.symbol,
      requestAmount |-> rv.requestAmount,
      requestTokenId |-> rv.requestTokenId, reference |-> rv.reference,
      status |-> "PENDING",
      date |-> BlockTimestamp(ev.blockNumber) * 1000]

C16_CreatedAppendsOne ==
  \A r \in inflight :
    r.awaiting = "getBlock" =>
      LET block == Ok([timestamp |-> BlockTimestamp(r.event.blockNumber)])
          result == reducer(r.state, r.event, Settings, block)
          before == RequestItems(r.state)
          keys == IF r.state = Undefined THEN {} ELSE DOMAIN r.state
      IN /\ result # Undefined /\ result # Rejected
         /\ DOMAIN result = keys \cup {"requests"}
         /\ result.requests.items = before \o <<C16_Record(r.event)>>
         /\ \A k \in keys \ {"requests"} : result[k] = r.state[k]

\* two creations applied in a row, the second with Ether as deposit token:
\* its record follows the first one's, and the seed's keys are still there
C16_Witness ==
  /\ inflight = {} /\ committed = 2 /\ LastKind = "TokenRequestCreated"
  /\ Done("initializeState") \in completed /\ cachedState = Null
  /\ Len(RequestItems(state)) = 2
  /\ state.requests.items[2] = C16_Record(lastEvent)
  /\ state.requests.items[2].depositSymbol = "ETH"
  /\ state.requests.items[1].depositToken = "0xBBB"
  /\ state.isSyncing = TRUE

(***************************************************************************)
(* C17: a refund (resp. finalise) event whose requestId matches a PENDING  *)
(* record replaces that record, in place, with one identical except for    *)
(* status = WITHDRAWN (resp. APPROVED); the length of requests, the        *)
(* record's position, all other records and every other key of the state   *)
(* are unchanged.  Stated of the event the store may take next.            *)
(***************************************************************************)
C17_TransitionInPlace ==
  (pc = "running" /\ StoreReady) =>
    \A ev \in EventsAt(delivered + 1) :
      ev.event \in TransitionKinds =>
        LET items == RequestItems(state)
            nextStatus == IF ev.event = "TokenRequestRefunded"
                          THEN "WITHDRAWN" ELSE "APPROVED"
            Matches(i) == /\ items[i].requestId = ev.returnValues.requestId
                          /\ items[i].status = "PENDING"
        IN (\E i \in 1..Len(items) : Matches(i)) =>
             \E i \in 1..Len(items) :
               /\ Matches(i)
               /\ reducer(state, ev, Settings, Err) =
                    [state EXCEPT !.requests =
                       Array([items EXCEPT ![i] = [@ EXCEPT !.status = nextStatus]])]

(***************************************************************************)
(* C18 as stated: while a request-created event with two non-sentinel      *)
(* tokens is being processed, the request token's resolution is started    *)
(* without waiting for the deposit token's to complete.                    *)
(***************************************************************************)
\* the lookups a suspended reduction has started so far
Started(r) == r.settled \cup {r.awaiting}

C18_ResolvedConcurrently ==
  \A r \in inflight :
    (/\ r.event.returnValues.depositToken # ETHER_TOKEN_FAKE_ADDRESS
     /\ r.event.returnValues.requestToken # ETHER_TOKEN_FAKE_ADDRESS
     /\ "depositToken" \notin r.settled)
    => "requestToken" \in Started(r)

(***************************************************************************)
(* C18 amended: the two resolutions run one after the other: the request   *)
(* token's resolution is started only once the deposit token's has         *)
(* completed, so the two are never in flight at the same time, and the     *)
(* block is fetched after both.                                            *)
(***************************************************************************)
C18_ResolvedInTurn ==
  \A r \in inflight :
    LET rv == r.event.returnValues
    IN /\ r.awaiting = "depositToken" => r.settled = {}
       /\ ("requestToken" \in Started(r)
             /\ rv.depositToken # ETHER_TOKEN_FAKE_ADDRESS)
          => "depositToken" \in r.settled
       /\ r.awaiting = "getBlock" =>
            r.settled = {"depositToken" : x \in {1} \cap
                           {IF rv.depositToken # ETHER_TOKEN_FAKE_ADDRESS THEN 1 ELSE 0}}
                        \cup {"requestToken" : x \in {1} \cap
                           {IF rv.requestToken # ETHER_TOKEN_FAKE_ADDRESS THEN 1 ELSE 0}}

\* the request token of a creation with two non-sentinel tokens is being
\* resolved, the deposit token's descriptor being there already
C18_Witness ==
  \E r \in inflight :
    /\ r.event.returnValues.depositToken = "0xBBB"
    /\ r.event.returnValues.requestToken = "0xDA1"
    /\ r.awaiting = "requestToken"
    /\ r.settled = {"depositToken"}

(***************************************************************************)
(* C19: sync-started sets isSyncing to true, sync-finished sets it to      *)
(* false and account-changed sets account to the event's value, each       *)
(* leaving every other key of the state unchanged; so after any sequence   *)
(* of events isSyncing reflects the most recent sync event, or the seed's  *)
(* value true when there was none: the seed has isSyncing = true and an    *)
(* event that is not a sync event leaves isSyncing as it was.  Stated of   *)
(* every step in which the store takes the result of an event.             *)
(***************************************************************************)
C19_Keys(s) == IF s = Undefined THEN {} ELSE DOMAIN s

\* the isSyncing key of a state, as text
C19_IsSyncing(s) ==
  IF "isSyncing" \notin C19_Keys(s) THEN "undefined"
  ELSE IF s.isSyncing THEN "true" ELSE "false"

C19_SetsOnly(key, value) ==
  /\ state' # Undefined
  /\ DOMAIN state' = C19_Keys(state) \cup {key}
  /\ state'[key] = value
  /\ \A k \in C19_Keys(state) \ {key} : state'[k] = state[k]

C19_SyncReflectsLastSyncEvent ==
  [][/\ (Done("initializeState") \in completed' /\ delivered' = 0)
          => C19_IsSyncing(state') = "true"
     /\ committed' = committed + 1 =>
          CASE lastEvent'.event = SYNC_STATUS_SYNCING ->
                 C19_SetsOnly("isSyncing", TRUE)
            [] lastEvent'.event = SYNC_STATUS_SYNCED ->
                 C19_SetsOnly("isSyncing", FALSE)
            [] lastEvent'.event = ACCOUNTS_TRIGGER ->
                 C19_SetsOnly("account", lastEvent'.returnValues.account)
            [] OTHER ->
                 C19_IsSyncing(state') = C19_IsSyncing(state)]_vars

(***************************************************************************)
(* C20: after a successful bootstrap the reducer never changes or loses    *)
(* orgTokens and acceptedTokens: in every state reached afterwards, by any *)
(* sequence of events (creation events whose lookups fail and transition   *)
(* events for unknown requestIds included), both keys hold the seed's      *)
(* values, and the number of records in requests never decreases.          *)
(***************************************************************************)
C20_SeedKeysKept ==
  [][Done("initializeState") \in completed' =>
       LET seed == initializeState(cachedState, tokens, orgTokens, Settings)
       IN /\ Get(state', "orgTokens") = seed.orgTokens
          /\ Get(state', "acceptedTokens") = seed.acceptedTokens
          /\ Len(RequestItems(state')) >= Len(RequestItems(state))]_vars

=============================================================================
